---- MODULE Spec2Model ----
(***************************************************************************)
(* A model of the hybrid steady-state genetic algorithm of sci.ts:         *)
(*   - tpx, the generic two point crossover (src/unnamed/part_000),        *)
(*   - SPProblem, the Set Partitioning Problem                             *)
(*     (src/examples/airlineCrewScheduling/index.ts),                      *)
(*   - ssgarow, the driver (src/examples/airlineCrewScheduling/ssgarow.ts).*)
(*                                                                         *)
(* Arrays and bit sets are functions over 0..size-1, so that indices are   *)
(* the indices of the source.  Lists grown with push are sequences.        *)
(* Numbers that the source computes by division (penalty, value,           *)
(* averageNonZeros, selRate) are exact fractions [num, den], den > 0.      *)
(***************************************************************************)
EXTENDS Integers, Sequences, FiniteSets, TLC

VARIABLES
    \* the SPProblem object
    rows, sets, costs, penaltyFactor,   \* constructor arguments
    status,                             \* "new", "ready" or "error" (constructor threw)
    penalty, Ri, averageNonZeros,       \* private fields, Unset until computed
    \* the BitSet of the build: does new BitSet(size, buffer) share the buffer?
    shared,
    \* the method call in progress or last returned (validate, value, improve,
    \* generate, crossover, tpx)
    call,
    \* ssgarow: parameters, locals and position
    popSize, genN, improvements, improveS, rowSelectionS, selRate, xRate,
    population, pCost, gen, candidates, selIdx, newP, childIdx, worstIdx,
    p, pVal, initBest, pc

problemVars == <<rows, sets, costs, penaltyFactor, status, penalty, Ri,
                 averageNonZeros>>
gaVars == <<popSize, genN, improvements, improveS, rowSelectionS, selRate,
            xRate, population, pCost, gen, candidates, selIdx, newP, childIdx,
            worstIdx, p, pVal, initBest, pc>>
vars == <<problemVars, shared, call, gaVars>>

----------------------------------------------------------------------------
(* Bounds of the model *)

MaxRows == 2       \* rows of an SPP instance: 1..MaxRows
MaxN == 2          \* sets (columns) of an SPP instance: 1..MaxN
MaxCost == 1       \* costs are 0..MaxCost
MaxPenaltyFactor == 1   \* penaltyFactor is 0..MaxPenaltyFactor
MaxSize == 3       \* size of the bit sets given to tpx: 1..MaxSize
MaxPop == 2        \* popSize is 1..MaxPop
MaxGen == 2        \* genN is 1..MaxGen
MaxImprovements == 1    \* improvements is 1..MaxImprovements
MaxFlips == 1      \* bits mutated in one crossover of the driver: 0..MaxFlips
MaxDen == 2        \* xFactor, selRate and xRate are fractions k / d, d <= MaxDen

----------------------------------------------------------------------------
(* Arithmetic on exact fractions *)

Frac(a, b) == [num |-> a, den |-> b]
FracLess(f, g) == f.num * g.den < g.num * f.den
FracEq(f, g) == f.num * g.den = g.num * f.den
FracLeq(f, g) == ~FracLess(g, f)
Abs(k) == IF k < 0 THEN -k ELSE k
\* Math.floor and Math.ceil of a non-negative fraction
Floor(f) == f.num \div f.den
Ceil(f) == (f.num + f.den - 1) \div f.den

Size(f) == Cardinality(DOMAIN f)
Range(q) == {q[k] : k \in DOMAIN q}
BitSets(n) == [0..(n - 1) -> BOOLEAN]
\* new BitSet(n): all bits false
NewBitSet(n) == [i \in 0..(n - 1) |-> FALSE]
Flip(s, i) == [s EXCEPT ![i] = ~s[i]]

RECURSIVE SumTo(_, _)
\* f[0] + ... + f[k-1]
SumTo(f, k) == IF k = 0 THEN 0 ELSE SumTo(f, k - 1) + f[k - 1]

\* sci.statistics.avg
avg(c) == Frac(SumTo(c, Size(c)), Size(c))

\* sci.discrete.randInt(min, max): the values a draw can return
randInt(min, max) == IF max > min THEN min..(max - 1) ELSE {min}

RECURSIVE SortedSeq(_)
\* std.algorithm.sort of a list of distinct rows, given as their set
SortedSeq(S) ==
    IF S = {} THEN <<>>
    ELSE LET m == CHOOSE x \in S : \A y \in S : x <= y
         IN  <<m>> \o SortedSeq(S \ {m})

----------------------------------------------------------------------------
(* SPProblem *)

\* get n(): this.sets.length
N == Size(sets)

RECURSIVE ColsOfRow(_, _, _)
\* init(): Ri[row] after the columns 0..k-1 were pushed, in push order
ColsOfRow(st, row, k) ==
    IF k = 0 THEN <<>>
    ELSE LET before == ColsOfRow(st, row, k - 1)
         IN  IF row \in Range(st[k - 1]) THEN Append(before, k - 1) ELSE before

RECURSIVE NonZeros(_, _)
\* init(): the sum of sets[i].length over the columns 0..k-1
NonZeros(st, k) == IF k = 0 THEN 0 ELSE NonZeros(st, k - 1) + Len(st[k - 1])

\* init(): sorts every set, builds Ri (the transpose of sets) and
\* averageNonZeros
init(r, st) ==
    LET sorted == [i \in DOMAIN st |-> SortedSeq(Range(st[i]))]
    IN  [sets |-> sorted,
         Ri |-> [row \in 0..(r - 1) |-> ColsOfRow(sorted, row, Size(st))],
         averageNonZeros |-> Frac(NonZeros(sorted, Size(st)), Size(st))]

\* a private field that was not assigned yet
Unset == [unset |-> TRUE]

\* A plausible slip: the lengths are compared after the fields were computed.
ConstructorLateCheck(r, st, c, pf) ==
    LET f == init(r, st)
    IN  [status |-> IF Size(st) # Size(c) THEN "error" ELSE "ready",
         sets |-> f.sets,
         penalty |-> Frac(avg(c).num * pf, avg(c).den),
         Ri |-> f.Ri,
         averageNonZeros |-> f.averageNonZeros]

\* constructor(rows, sets, costs, penaltyFactor): the object it leaves
constructor(r, st, c, pf) ==
    IF Size(st) # Size(c)
    THEN [status |-> "error", sets |-> st, penalty |-> Unset,
          Ri |-> Unset, averageNonZeros |-> Unset]
    ELSE LET f == init(r, st)
         IN  [status |-> "ready",
              sets |-> f.sets,
              penalty |-> Frac(avg(c).num * pf, avg(c).den),
              Ri |-> f.Ri,
              averageNonZeros |-> f.averageNonZeros]

RECURSIVE CountSelected(_, _, _)
\* value(): r + 1 after the first k columns of a row of Ri were read
CountSelected(s, row, k) ==
    IF k = 0 THEN 0
    ELSE CountSelected(s, row, k - 1) + (IF s[row[k]] THEN 1 ELSE 0)

RECURSIVE Penalties(_, _)
\* value(): the sum of |r| over the rows 0..k-1, in units of this.penalty
Penalties(s, k) ==
    IF k = 0 THEN 0
    ELSE Penalties(s, k - 1)
         + Abs(-1 + CountSelected(s, Ri[k - 1], Len(Ri[k - 1])))

RECURSIVE SelectedCost(_, _)
\* value(): the sum of costs[i] over the selected i < k
SelectedCost(s, k) ==
    IF k = 0 THEN 0
    ELSE SelectedCost(s, k - 1) + (IF s[k - 1] THEN costs[k - 1] ELSE 0)

\* A plausible slip: r starts at 0, so every covering column is penalised.
ValueCountsFromZero(s) ==
    LET pens == SumTo([k \in 0..(rows - 1) |->
                          CountSelected(s, Ri[k], Len(Ri[k]))], rows)
    IN  Frac(SelectedCost(s, Size(s)) * penalty.den + pens * penalty.num,
             penalty.den)

\* value(s) = value + penalties
value(s) ==
    Frac(SelectedCost(s, Size(s)) * penalty.den
            + Penalties(s, rows) * penalty.num,
         penalty.den)

RECURSIVE MarkRows(_, _, _)
\* validate(): the inner loop over the rows of one selected set, from its k-th
\* row on; overlap when a row is already marked (return false)
MarkRows(set, k, bs) ==
    IF k > Len(set) THEN [overlap |-> FALSE, bs |-> bs]
    ELSE IF bs[set[k]] THEN [overlap |-> TRUE, bs |-> bs]
         ELSE MarkRows(set, k + 1, [bs EXCEPT ![set[k]] = TRUE])

RECURSIVE ValidateFrom(_, _, _)
\* validate(): the outer loop from column i on
ValidateFrom(s, i, bs) ==
    IF i = N THEN \A row \in DOMAIN bs : bs[row]
    ELSE IF s[i]
         THEN LET marked == MarkRows(sets[i], 1, bs)
              IN  IF marked.overlap THEN FALSE
                  ELSE ValidateFrom(s, i + 1, marked.bs)
         ELSE ValidateFrom(s, i + 1, bs)

\* A plausible slip: an already marked row is not reported.
ValidateIgnoresOverlap(s) ==
    \A row \in 0..(rows - 1) : \E i \in 0..(N - 1) : s[i] /\ row \in Range(sets[i])

\* validate(s)
validate(s) == ValidateFrom(s, 0, NewBitSet(rows))

RECURSIVE Selected(_, _, _)
\* selectRow(): r after the first k columns of a row of Ri were read
Selected(s, row, k) ==
    IF k = 0 THEN <<>>
    ELSE LET before == Selected(s, row, k - 1)
         IN  IF s[row[k]] THEN Append(before, row[k]) ELSE before

RECURSIVE MaxRow(_, _, _)
\* selectRow(), RowSelectionStrategy.Max: max after the rows 0..k-1
MaxRow(s, k, max) ==
    IF k = 0 THEN max
    ELSE LET before == MaxRow(s, k - 1, max)
             r == Selected(s, Ri[k - 1], Len(Ri[k - 1]))
         IN  IF Len(r) > Len(before) THEN r ELSE before

\* selectRow(s, rss); drawn is what randInt(0, this.rows) returned
selectRow(s, rss, drawn) ==
    IF rss = "Max" THEN MaxRow(s, rows, <<>>)
    ELSE Selected(s, Ri[drawn], Len(Ri[drawn]))

RECURSIVE BestLoopLastOnTies(_, _, _, _, _)
\* A plausible slip: the Best loop compares with <=, so that a flip as good as
\* the best so far replaces it.
BestLoopLastOnTies(newS, cols, i, bestCost, best) ==
    IF i >= Len(cols) THEN best
    ELSE LET colCost == value(Flip(newS, cols[i + 1]))
         IN  IF FracLeq(colCost, bestCost)
             THEN BestLoopLastOnTies(newS, cols, i + 1, colCost, i)
             ELSE BestLoopLastOnTies(newS, cols, i + 1, bestCost, best)

RECURSIVE BestLoop(_, _, _, _, _)
\* improve(), ImprovementStrategy.Best: the loop from cols[i] on (cols is
\* 0-based in the source, cols[i] is cols[i + 1] here); yields best
BestLoop(newS, cols, i, bestCost, best) ==
    IF i >= Len(cols) THEN best
    ELSE LET flipped == Flip(newS, cols[i + 1])
             colCost == value(flipped)
             restored == Flip(flipped, cols[i + 1])
         IN  IF FracLess(colCost, bestCost)
             THEN BestLoop(restored, cols, i + 1, colCost, i)
             ELSE BestLoop(restored, cols, i + 1, bestCost, best)

RECURSIVE FirstLoop(_, _, _, _, _)
\* improve(), ImprovementStrategy.First: the loop from cols[i] on; yields the
\* solution returned
FirstLoop(s, newS, cols, i, bestCost) ==
    IF i >= Len(cols) THEN s
    ELSE LET flipped == Flip(newS, cols[i + 1])
         IN  IF FracLess(value(flipped), bestCost) THEN flipped
             ELSE FirstLoop(s, Flip(flipped, cols[i + 1]), cols, i + 1, bestCost)

RECURSIVE WorstLoop(_, _, _, _, _)
\* A plausible slip: the comparison of the Best loop is reversed.
WorstLoop(newS, cols, i, bestCost, best) ==
    IF i >= Len(cols) THEN best
    ELSE LET colCost == value(Flip(newS, cols[i + 1]))
         IN  IF FracLess(bestCost, colCost)
             THEN WorstLoop(newS, cols, i + 1, colCost, i)
             ELSE WorstLoop(newS, cols, i + 1, bestCost, best)

\* improve() with the Best loop's comparison reversed
ImproveReversed(s, is, rss, drawn) ==
    LET cols == selectRow(s, rss, drawn)
    IN  IF is = "Best"
        THEN LET best == WorstLoop(s, cols, 0, value(s), -1)
             IN  IF best # -1 THEN Flip(s, cols[best + 1]) ELSE s
        ELSE FirstLoop(s, s, cols, 0, value(s))

\* improve(s, is, rss): the solution returned.  newS is built on s.buffer: when
\* the BitSet shares the buffer, s holds the returned bits too afterwards
\* (every other flip was undone).
improve(s, is, rss, drawn) ==
    LET cols == selectRow(s, rss, drawn)
        bestCost == value(s)
    IN  IF is = "Best"
        THEN LET best == BestLoop(s, cols, 0, bestCost, -1)
             IN  IF best # -1 THEN Flip(s, cols[best + 1]) ELSE s
        ELSE FirstLoop(s, s, cols, 0, bestCost)

\* what the argument of improve holds once improve returned ret
ArgumentAfter(s, ret) == IF shared THEN ret ELSE s

\* crossover(): inRange(i, center, range), a closure over x and distance,
\* bound to the problem
inRange(i, center, range, x, distance) ==
    \/ i > x /\ i < center + range
    \/ x + range >= N /\ i <= (center + distance) % N

\* crossover(): Math.random() < pMutation, with pMutation = 1 / n
MutationDraws == IF N = 1 THEN {TRUE} ELSE BOOLEAN

\* crossover(): the children for the drawn x, distance and mutations (mutAB[i]
\* and mutBA[i]: whether bit i of ab, of ba is mutated)
Children(a, b, x, distance, mutAB, mutBA) ==
    LET ab == [i \in 0..(Size(a) - 1) |->
                 IF inRange(i, x, distance, x, distance)
                 THEN (IF mutAB[i] THEN ~b[i] ELSE b[i])
                 ELSE (IF mutAB[i] THEN ~a[i] ELSE a[i])]
        ba == [i \in 0..(Size(b) - 1) |->
                 IF inRange(i, x, distance, x, distance)
                 THEN (IF mutBA[i] THEN ~a[i] ELSE a[i])
                 ELSE (IF mutBA[i] THEN ~b[i] ELSE b[i])]
    IN  <<ab, ba>>

\* generate(): the number of passes of the loop that select a set, the least
\* integer that is not below nonZero = rows / averageNonZeros
\* (0 stands for Infinity: no set holds a row)
GenerateTarget ==
    IF averageNonZeros.num = 0 THEN 0
    ELSE Ceil(Frac(rows * averageNonZeros.den, averageNonZeros.num))

\* generate(): the solutions it can return; none when the loop cannot end
GenerateResults ==
    IF averageNonZeros.num = 0 \/ GenerateTarget > N THEN {}
    ELSE {s \in BitSets(N) : Cardinality({i \in DOMAIN s : s[i]}) = GenerateTarget}

\* generate(): the loop condition i < nonZero, nonZero = rows /
\* averageNonZeros, which is Infinity when no set holds a row
LoopRuns(i) ==
    IF averageNonZeros.num = 0 THEN rows > 0
    ELSE i * averageNonZeros.num < rows * averageNonZeros.den

\* A plausible slip: a duplicate pick is counted as a pass like any other.
PickCountsDuplicate(s, i, v) ==
    IF s[v] THEN [s |-> s, i |-> i + 1]
    ELSE [s |-> [s EXCEPT ![v] = TRUE], i |-> i + 1]

\* generate(): one pass of the loop for the drawn v, with the i++ that ends it;
\* a duplicate pick takes i back first
Pick(s, i, v) ==
    IF s[v] THEN [s |-> s, i |-> (i - 1) + 1]
    ELSE [s |-> [s EXCEPT ![v] = TRUE], i |-> i + 1]

----------------------------------------------------------------------------
(* tpx *)

RECURSIVE TpxLoop(_, _, _, _, _, _, _)
\* tpx(): the loop from i on.  ab is built on a.buffer and ba on b.buffer:
\* when the BitSet shares the buffer, a write to ab is a write to a, and a
\* write to ba is a write to b.
TpxLoop(a, b, ab, ba, i, x, distance) ==
    IF i >= distance THEN [ab |-> ab, ba |-> ba, a |-> a, b |-> b]
    ELSE LET bit == (x + i) % Size(a)
             ab1 == [ab EXCEPT ![bit] = b[bit]]
             a1 == IF shared THEN ab1 ELSE a
             ba1 == [ba EXCEPT ![bit] = a1[bit]]
             b1 == IF shared THEN ba1 ELSE b
         IN  TpxLoop(a1, b1, ab1, ba1, i + 1, x, distance)

\* tpx(a, b, xFactor) for the drawn x: the children, and what a and b hold
\* afterwards
tpx(a, b, xFactor, x) ==
    TpxLoop(a, b, a, b, 0, x, Ceil(Frac(Size(a) * xFactor.num, xFactor.den)))

----------------------------------------------------------------------------
(* The inputs *)

RECURSIVE Descending(_)
\* the rows of a set as its caller lists them: not sorted yet
Descending(S) ==
    IF S = {} THEN <<>>
    ELSE LET m == CHOOSE x \in S : \A y \in S : x >= y
         IN  <<m>> \o Descending(S \ {m})

RowLists(r) == {Descending(S) : S \in SUBSET (0..(r - 1))}
SetsInputs(r) == UNION {[0..(n - 1) -> RowLists(r)] : n \in 1..MaxN}
CostsInputs == UNION {[0..(n - 1) -> 0..MaxCost] : n \in 1..MaxN}
Strategies == {"Best", "First"}
RowStrategies == {"Max", "Random"}

\* no call was made yet
NoCall == [op |-> "none"]

\* ssgarow is not running
GAIdle ==
    /\ popSize = 0 /\ genN = 0 /\ improvements = 0
    /\ improveS = "Best" /\ rowSelectionS = "Max"
    /\ selRate = Frac(1, 1) /\ xRate = Frac(1, 1)
    /\ population = <<>> /\ pCost = <<>> /\ gen = 0
    /\ candidates = <<>> /\ selIdx = 0 /\ newP = <<>> /\ childIdx = 0
    /\ worstIdx = -1 /\ p = <<>> /\ pVal = Frac(0, 1) /\ initBest = Frac(0, 1)
    /\ pc = "idle"

----------------------------------------------------------------------------
(* Spec: an SPProblem is constructed, and then one of its validate, value  *)
(* and improve is called with any solution of length n.  The three leave   *)
(* the problem as it is, so one call after the other adds nothing.         *)

Init ==
    /\ rows \in 1..MaxRows
    /\ sets \in SetsInputs(rows)
    /\ costs \in CostsInputs
    /\ penaltyFactor \in 0..MaxPenaltyFactor
    /\ status = "new"
    /\ penalty = Unset /\ Ri = Unset /\ averageNonZeros = Unset
    /\ shared = FALSE      \* read by no call of Spec
    /\ call = NoCall
    /\ GAIdle

\* new SPProblem(rows, sets, costs, penaltyFactor)
Construct ==
    /\ status = "new"
    /\ LET o == constructor(rows, sets, costs, penaltyFactor)
       IN  /\ status' = o.status
           /\ sets' = o.sets
           /\ penalty' = o.penalty
           /\ Ri' = o.Ri
           /\ averageNonZeros' = o.averageNonZeros
    /\ UNCHANGED <<rows, costs, penaltyFactor, shared, call, gaVars>>

\* problem.validate(s)
CallValidate ==
    /\ status = "ready" /\ call = NoCall
    /\ \E s \in BitSets(N) :
          call' = [op |-> "validate", s |-> s, ret |-> validate(s)]
    /\ UNCHANGED <<problemVars, shared, gaVars>>

\* problem.value(s)
CallValue ==
    /\ status = "ready" /\ call = NoCall
    /\ \E s \in BitSets(N) :
          call' = [op |-> "value", s |-> s, ret |-> value(s)]
    /\ UNCHANGED <<problemVars, shared, gaVars>>

\* problem.improve(s, is, rss); s is the argument as it was when improve was
\* called, cols the list selectRow returned to it
CallImprove ==
    /\ status = "ready" /\ call = NoCall
    /\ \E s \in BitSets(N), is \in Strategies, rss \in RowStrategies,
          drawn \in randInt(0, rows) :
          call' = [op |-> "improve", s |-> s, is |-> is, rss |-> rss,
                   cols |-> selectRow(s, rss, drawn),
                   ret |-> improve(s, is, rss, drawn)]
    /\ UNCHANGED <<problemVars, shared, gaVars>>

Next == Construct \/ CallValidate \/ CallValue \/ CallImprove

Spec == Init /\ [][Next]_vars

----------------------------------------------------------------------------
(* SpecTpx: tpx is called with any two bit sets of one size and any        *)
(* xFactor in [0, 1], on a build whose BitSet shares the buffer it is      *)
(* given, or copies it.                                                    *)

\* no SPProblem exists
NoProblem ==
    /\ rows = 0 /\ sets = <<>> /\ costs = <<>> /\ penaltyFactor = 1
    /\ status = "none"
    /\ penalty = Unset /\ Ri = Unset /\ averageNonZeros = Unset

\* the fractions k / d in [0, 1]
UnitFractions ==
    LET Reduced(k, d) == \A g \in 2..d : k % g # 0 \/ d % g # 0
    IN  UNION {{Frac(k, d) : k \in {j \in 0..d : Reduced(j, d)}} : d \in 1..MaxDen}
\* the window of tpx: the indices (x + i) mod size, 0 <= i < distance
Window(x, distance, size) == {(x + i) % size : i \in 0..(distance - 1)}

InitTpx ==
    /\ NoProblem
    /\ shared \in BOOLEAN
    /\ \E size \in 1..MaxSize :
          \E a \in BitSets(size), b \in BitSets(size), xFactor \in UnitFractions :
              call = [op |-> "tpx", pc |-> "called", a |-> a, b |-> b,
                      xFactor |-> xFactor]
    /\ GAIdle

\* tpx(a, b, xFactor) runs and returns; a and b stay the arguments as they
\* were when tpx was called, aAfter and bAfter are what they hold afterwards
TpxCall ==
    /\ call.op = "tpx" /\ call.pc = "called"
    /\ \E x \in randInt(0, Size(call.a)) :
          LET r == tpx(call.a, call.b, call.xFactor, x)
          IN  call' = [op |-> "tpx", pc |-> "done", a |-> call.a, b |-> call.b,
                       xFactor |-> call.xFactor, x |-> x,
                       ret |-> <<r.ab, r.ba>>, aAfter |-> r.a, bAfter |-> r.b]
    /\ UNCHANGED <<problemVars, shared, gaVars>>

NextTpx == TpxCall

SpecTpx == InitTpx /\ [][NextTpx]_vars

----------------------------------------------------------------------------
(* SpecCrossover: crossover is called on a problem of n sets with any two  *)
(* solutions of length n.  The loop that draws distance is a step of its   *)
(* own; FairCrossover adds that every value randInt can return is drawn    *)
(* again and again.                                                        *)

\* the problem of n sets of cost 1, each holding the one row 0
UnitProblem(n) ==
    /\ rows = 1
    /\ penaltyFactor = 1
    /\ costs = [i \in 0..(n - 1) |-> 1]
    /\ LET o == constructor(1, [i \in 0..(n - 1) |-> <<0>>],
                            [i \in 0..(n - 1) |-> 1], 1)
       IN  /\ status = o.status /\ sets = o.sets /\ penalty = o.penalty
           /\ Ri = o.Ri /\ averageNonZeros = o.averageNonZeros

InitCrossover ==
    /\ \E n \in 1..MaxSize : UnitProblem(n)
    /\ shared \in BOOLEAN
    /\ call = NoCall
    /\ GAIdle

\* crossover(a, b) is called: ab, ba are allocated and x is drawn
CrossoverStart ==
    /\ status = "ready" /\ call = NoCall
    /\ \E a \in BitSets(N), b \in BitSets(N), x \in randInt(0, N) :
          call' = [op |-> "crossover", pc |-> "distance", a |-> a, b |-> b,
                   x |-> x, distance |-> 0]
    /\ UNCHANGED <<problemVars, shared, gaVars>>

\* one pass of while ((distance = randInt(0, a.size - 1)) === 0) {}
CrossoverDistance(d) ==
    /\ call.op = "crossover" /\ call.pc = "distance"
    /\ d \in randInt(0, Size(call.a) - 1)
    /\ call' = [call EXCEPT !.distance = d,
                            !.pc = IF d = 0 THEN "distance" ELSE "loop"]
    /\ UNCHANGED <<problemVars, shared, gaVars>>

\* the loop over the bits, and the return
CrossoverLoop ==
    /\ call.op = "crossover" /\ call.pc = "loop"
    /\ \E mutAB \in [0..(Size(call.a) - 1) -> MutationDraws],
          mutBA \in [0..(Size(call.a) - 1) -> MutationDraws] :
          call' = [op |-> "crossover", pc |-> "done", a |-> call.a,
                   b |-> call.b, x |-> call.x, distance |-> call.distance,
                   mutAB |-> mutAB, mutBA |-> mutBA,
                   ret |-> Children(call.a, call.b, call.x, call.distance,
                                    mutAB, mutBA)]
    /\ UNCHANGED <<problemVars, shared, gaVars>>

NextCrossover ==
    \/ CrossoverStart
    \/ \E d \in 0..MaxSize : CrossoverDistance(d)
    \/ CrossoverLoop

SpecCrossover == InitCrossover /\ [][NextCrossover]_vars

\* Each draw of randInt has a positive probability: a value that stays
\* possible is drawn at last.
FairCrossover ==
    /\ SpecCrossover
    /\ \A d \in 0..MaxSize : WF_vars(CrossoverDistance(d))
    /\ WF_vars(CrossoverLoop)

----------------------------------------------------------------------------
(* SpecGenerate: generate is called on any problem the constructor         *)
(* accepts.  Each pass of its loop is a step; FairGenerate adds that every *)
(* value randInt can return is drawn again and again.                      *)

InitGenerate ==
    /\ rows \in 1..MaxRows
    /\ penaltyFactor \in 0..MaxPenaltyFactor
    /\ \E st \in SetsInputs(rows) :
          /\ costs \in [DOMAIN st -> 0..MaxCost]
          /\ LET o == constructor(rows, st, costs, penaltyFactor)
             IN  /\ status = o.status /\ sets = o.sets /\ penalty = o.penalty
                 /\ Ri = o.Ri /\ averageNonZeros = o.averageNonZeros
    /\ shared = FALSE      \* generate copies no BitSet
    /\ call = NoCall
    /\ GAIdle

\* generate() is called: s = new BitSet(this.n), i = 0
GenerateStart ==
    /\ status = "ready" /\ call = NoCall
    /\ call' = [op |-> "generate", pc |-> "loop", s |-> NewBitSet(N), i |-> 0]
    /\ UNCHANGED <<problemVars, shared, gaVars>>

\* one pass of the loop, v being what randInt(0, this.n) returned
GeneratePick(v) ==
    /\ call.op = "generate" /\ call.pc = "loop"
    /\ LoopRuns(call.i)
    /\ v \in randInt(0, N)
    /\ LET after == Pick(call.s, call.i, v)
       IN  call' = [call EXCEPT !.s = after.s, !.i = after.i]
    /\ UNCHANGED <<problemVars, shared, gaVars>>

\* the loop ends: return s
GenerateReturn ==
    /\ call.op = "generate" /\ call.pc = "loop"
    /\ ~LoopRuns(call.i)
    /\ call' = [op |-> "generate", pc |-> "done", s |-> call.s, i |-> call.i,
                ret |-> call.s]
    /\ UNCHANGED <<problemVars, shared, gaVars>>

NextGenerate ==
    \/ GenerateStart
    \/ \E v \in 0..(MaxN - 1) : GeneratePick(v)
    \/ GenerateReturn

SpecGenerate == InitGenerate /\ [][NextGenerate]_vars

\* Each draw of randInt has a positive probability: a value that stays
\* possible is drawn at last.
FairGenerate ==
    /\ SpecGenerate
    /\ \A v \in 0..(MaxN - 1) : WF_vars(GeneratePick(v))
    /\ WF_vars(GenerateReturn)

----------------------------------------------------------------------------
(* ssgarow *)

RECURSIVE ImproveTimes(_, _, _, _, _)
\* for (j < improvements) s = problem.improve(s, improveS, rowSelectionS): the
\* passes from the k-th on; drawn[j] is what randInt returned in pass j
ImproveTimes(s, is, rss, drawn, k) ==
    IF k > Len(drawn) THEN s
    ELSE ImproveTimes(improve(s, is, rss, drawn[k]), is, rss, drawn, k + 1)

\* the draws of randInt(0, this.rows) of `times` passes of improve
RowDraws(times) == [1..times -> randInt(0, rows)]

RECURSIVE FindBestLoop(_, _, _)
\* findBest(): the loop from i on; k = -1 stands for kValue = Infinity
FindBestLoop(pop, i, k) ==
    IF i >= Size(pop) THEN k
    ELSE IF k = -1 \/ FracLess(value(pop[i]), value(pop[k]))
         THEN FindBestLoop(pop, i + 1, i)
         ELSE FindBestLoop(pop, i + 1, k)

RECURSIVE FindWorstLoop(_, _, _)
\* findWorst(): the loop from i on; k = -1 stands for kValue = -Infinity
FindWorstLoop(pop, i, k) ==
    IF i >= Size(pop) THEN k
    ELSE IF k = -1 \/ FracLess(value(pop[k]), value(pop[i]))
         THEN FindWorstLoop(pop, i + 1, i)
         ELSE FindWorstLoop(pop, i + 1, k)

\* A plausible slip: findBest compares like findWorst.
FindBestReversed(pop) == FindWorstLoop(pop, 0, -1)

\* findBest()
findBest(pop) == FindBestLoop(pop, 0, -1)

\* A plausible slip: findWorst compares like findBest.
FindWorstReversed(pop) == FindBestLoop(pop, 0, -1)

\* findWorst()
findWorst(pop) == FindWorstLoop(pop, 0, -1)

\* binaryTournament() for the drawn a and b
binaryTournament(pop, a, b) ==
    IF FracLess(value(pop[a]), value(pop[b])) THEN a ELSE b

\* A plausible slip: the winner is pushed without looking for it in candidates.
PushAlways(cands, candidate) == Append(cands, candidate)

\* getCandidates(): if (candidates.indexOf(candidate) === -1) push
PushCandidate(cands, candidate) ==
    IF candidate \notin Range(cands) THEN Append(cands, candidate) ELSE cands

\* getCandidates(): n = Math.floor(popSize * selRate)
CandidatesWanted(size, rate) == Floor(Frac(size * rate.num, rate.den))

\* A plausible slip: the child replaces the worst, its cached cost stays.
ReplaceSolutionOnly(pop, cost, worst, child, childVal) ==
    IF FracLess(childVal, cost[worst])
    THEN [population |-> [pop EXCEPT ![worst] = child], pCost |-> cost]
    ELSE [population |-> pop, pCost |-> cost]

\* if (pCost[worstIdx] > pVal) { pCost[worstIdx] = pVal; population[worstIdx] = p }
ReplaceWorst(pop, cost, worst, child, childVal) ==
    IF FracLess(childVal, cost[worst])
    THEN [population |-> [pop EXCEPT ![worst] = child],
          pCost |-> [cost EXCEPT ![worst] = childVal]]
    ELSE [population |-> pop, pCost |-> cost]

\* the mutations of one crossover: at most MaxFlips bits of the two children
Mutations(n) ==
    {m \in [0..(n - 1) -> MutationDraws] \X [0..(n - 1) -> MutationDraws] :
        Cardinality({i \in 0..(n - 1) : m[1][i]})
          + Cardinality({i \in 0..(n - 1) : m[2][i]}) <= MaxFlips}

\* crossover(a, b) as a whole: the pairs of children it can return, for the
\* draws of distance that leave its loop
CrossoverResults(a, b) ==
    {Children(a, b, x, d, m[1], m[2]) :
        x \in randInt(0, Size(a)),
        d \in randInt(0, Size(a) - 1) \ {0},
        m \in Mutations(Size(a))}

\* the least value of a population
LeastValue(pop) ==
    LET k == CHOOSE i \in DOMAIN pop :
                \A j \in DOMAIN pop : FracLeq(value(pop[i]), value(pop[j]))
    IN  value(pop[k])

\* the problem of the driver: two rows, the sets {0}, {1} and {0, 1}, each of
\* cost 1, penaltyFactor 1
DriverProblem ==
    /\ rows = 2
    /\ penaltyFactor = 1
    /\ costs = [i \in 0..2 |-> 1]
    /\ LET st == (0 :> <<0>>) @@ (1 :> <<1>>) @@ (2 :> <<1, 0>>)
           o == constructor(2, st, [i \in 0..2 |-> 1], 1)
       IN  /\ status = o.status /\ sets = o.sets /\ penalty = o.penalty
           /\ Ri = o.Ri /\ averageNonZeros = o.averageNonZeros

\* ssgarow gives improve solutions it drops at once (population[i] =
\* improve(population[i]), p = improve(p)) or never reads again (the best
\* member, at the end): no step of it reads shared.
InitGA ==
    /\ DriverProblem
    /\ shared = FALSE
    /\ call = NoCall
    /\ popSize \in 1..MaxPop
    /\ genN \in 1..MaxGen
    /\ improvements \in 1..MaxImprovements
    /\ improveS \in Strategies
    /\ rowSelectionS \in RowStrategies
    /\ selRate \in {f \in UnitFractions : f.num > 0}
    /\ xRate \in {f \in UnitFractions : f.num > 0}
    /\ population = <<>> /\ pCost = <<>>
    /\ gen = 0 /\ candidates = <<>> /\ selIdx = 0 /\ newP = <<>>
    /\ childIdx = 0 /\ worstIdx = -1 /\ p = <<>> /\ pVal = Frac(0, 1)
    /\ initBest = Frac(0, 1)
    /\ pc = "init"

\* one pass of the initialization loop: generate, improve, push the cost
InitIndividual ==
    /\ pc = "init"
    /\ \E s \in GenerateResults, drawn \in RowDraws(improvements) :
          LET i == Size(population)
              improved == ImproveTimes(s, improveS, rowSelectionS, drawn, 1)
              pop == [j \in 0..i |-> IF j = i THEN improved ELSE population[j]]
          IN  /\ population' = pop
              /\ pCost' = [j \in 0..i |-> IF j = i THEN value(improved) ELSE pCost[j]]
              /\ IF i + 1 = popSize
                 THEN pc' = "select" /\ initBest' = LeastValue(pop)
                 ELSE pc' = "init" /\ UNCHANGED initBest
    /\ UNCHANGED <<problemVars, shared, call, popSize, genN, improvements,
                   improveS, rowSelectionS, selRate, xRate, gen, candidates,
                   selIdx, newP, childIdx, worstIdx, p, pVal>>

\* getCandidates(): one pass of while (candidates.length < n), with the a and b
\* that binaryTournament draws
Tournament(a, b) ==
    /\ pc = "select"
    /\ Len(candidates) < CandidatesWanted(popSize, selRate)
    /\ a \in randInt(0, Size(population))
    /\ b \in randInt(0, Size(population))
    /\ candidates' = PushCandidate(candidates, binaryTournament(population, a, b))
    /\ UNCHANGED <<problemVars, shared, call, popSize, genN, improvements,
                   improveS, rowSelectionS, selRate, xRate, population, pCost,
                   gen, selIdx, newP, childIdx, worstIdx, p, pVal, initBest, pc>>

\* getCandidates() returns: selection = candidates, newP = []
GetCandidatesReturn ==
    /\ pc = "select"
    /\ Len(candidates) >= CandidatesWanted(popSize, selRate)
    /\ pc' = "breed" /\ selIdx' = 0 /\ newP' = <<>>
    /\ UNCHANGED <<problemVars, shared, call, popSize, genN, improvements,
                   improveS, rowSelectionS, selRate, xRate, population, pCost,
                   gen, candidates, childIdx, worstIdx, p, pVal, initBest>>

\* for (const s of selection), the candidate is not crossed over:
\* Math.random() >= xRate, which no draw in [0, 1) does when xRate is 1
BreedSkip ==
    /\ pc = "breed" /\ selIdx < Len(candidates)
    /\ FracLess(xRate, Frac(1, 1))
    /\ selIdx' = selIdx + 1
    /\ UNCHANGED <<problemVars, shared, call, popSize, genN, improvements,
                   improveS, rowSelectionS, selRate, xRate, population, pCost,
                   gen, candidates, newP, childIdx, worstIdx, p, pVal,
                   initBest, pc>>

\* for (const s of selection), the candidate is crossed over with a drawn
\* candidate and the two children are pushed
BreedCrossover ==
    /\ pc = "breed" /\ selIdx < Len(candidates)
    /\ \E drawn \in randInt(0, Len(candidates)) :
          LET s == candidates[selIdx + 1]
              other == candidates[drawn + 1]
          IN  \E children \in CrossoverResults(population[s], population[other]) :
                 newP' = newP \o children
    /\ selIdx' = selIdx + 1
    /\ UNCHANGED <<problemVars, shared, call, popSize, genN, improvements,
                   improveS, rowSelectionS, selRate, xRate, population, pCost,
                   gen, candidates, childIdx, worstIdx, p, pVal, initBest, pc>>

\* the loop over selection ends, newP.forEach starts
BreedDone ==
    /\ pc = "breed" /\ selIdx = Len(candidates)
    /\ pc' = "replace" /\ childIdx' = 0
    /\ UNCHANGED <<problemVars, shared, call, popSize, genN, improvements,
                   improveS, rowSelectionS, selRate, xRate, population, pCost,
                   gen, candidates, selIdx, newP, worstIdx, p, pVal, initBest>>

\* the callback of newP.forEach for one child: improve, value, findWorst,
\* replace
ProcessChild ==
    /\ pc = "replace" /\ childIdx < Len(newP)
    /\ \E drawn \in RowDraws(improvements) :
          LET improved == ImproveTimes(newP[childIdx + 1], improveS,
                                       rowSelectionS, drawn, 1)
              val == value(improved)
              worst == findWorst(population)
              r == ReplaceWorst(population, pCost, worst, improved, val)
          IN  /\ p' = improved /\ pVal' = val /\ worstIdx' = worst
              /\ population' = r.population /\ pCost' = r.pCost
    /\ childIdx' = childIdx + 1
    /\ UNCHANGED <<problemVars, shared, call, popSize, genN, improvements,
                   improveS, rowSelectionS, selRate, xRate, gen, candidates,
                   selIdx, newP, initBest, pc>>

\* newP.forEach ends: gen++, and the next generation or the end of the loop;
\* selection, newP and the locals of the callback go out of scope
GenerationDone ==
    /\ pc = "replace" /\ childIdx = Len(newP)
    /\ gen' = gen + 1
    /\ candidates' = <<>> /\ selIdx' = 0 /\ newP' = <<>> /\ childIdx' = 0
    /\ worstIdx' = -1 /\ p' = <<>> /\ pVal' = Frac(0, 1)
    /\ pc' = IF gen + 1 < genN THEN "select" ELSE "final"
    /\ UNCHANGED <<problemVars, shared, call, popSize, genN, improvements,
                   improveS, rowSelectionS, selRate, xRate, population, pCost,
                   initBest>>

\* p = population[findBest()], improved, is returned
Finalize ==
    /\ pc = "final"
    /\ \E drawn \in RowDraws(improvements) :
          p' = ImproveTimes(population[findBest(population)], improveS,
                            rowSelectionS, drawn, 1)
    /\ pc' = "done"
    /\ UNCHANGED <<problemVars, shared, call, popSize, genN, improvements,
                   improveS, rowSelectionS, selRate, xRate, population, pCost,
                   gen, candidates, selIdx, newP, childIdx, worstIdx, pVal,
                   initBest>>

NextGA ==
    \/ InitIndividual
    \/ \E a \in 0..(MaxPop - 1), b \in 0..(MaxPop - 1) : Tournament(a, b)
    \/ GetCandidatesReturn
    \/ BreedSkip
    \/ BreedCrossover
    \/ BreedDone
    \/ ProcessChild
    \/ GenerationDone
    \/ Finalize

SpecGA == InitGA /\ [][NextGA]_vars

\* Each draw of randInt has a positive probability: a pair (a, b) that stays
\* possible is drawn at last.  The other steps are the program running on.
FairGA ==
    /\ SpecGA
    /\ \A a \in 0..(MaxPop - 1), b \in 0..(MaxPop - 1) : WF_vars(Tournament(a, b))
    /\ WF_vars(GetCandidatesReturn)

----------------------------------------------------------------------------
(* Claims on SPProblem, under Spec *)

\* the selected sets of s that hold a row
Covering(s, row) == {i \in 0..(N - 1) : s[i] /\ row \in Range(sets[i])}
\* every row is covered by exactly one selected set
ExactCover(s) == \A row \in 0..(rows - 1) : Cardinality(Covering(s, row)) = 1
\* the sum of the costs of the selected sets
CostOfSelected(s) == SumTo([i \in 0..(N - 1) |-> IF s[i] THEN costs[i] ELSE 0], N)

\* C1: validate(s) returns true if and only if every row in [0, rows) is
\* covered by exactly one selected set of s.
C1_ValidateIffExactCover ==
    call.op = "validate" => (call.ret <=> ExactCover(call.s))

\* validate returned true for a partition made of two sets or more
C1_Witness ==
    /\ call.op = "validate" /\ call.ret
    /\ Cardinality({i \in 0..(N - 1) : call.s[i]}) >= 2

C3_ImproveNeverWorsens ==
    call.op = "improve" => FracLeq(value(call.ret), value(call.s))

\* improve returned a strictly better solution than it was given
C3_Witness ==
    /\ call.op = "improve" /\ call.ret # call.s
    /\ FracLess(value(call.ret), value(call.s))

\* the value of s with its bit cols[k] flipped
FlipValue(s, cols, k) == value(Flip(s, cols[k]))
\* the positions of cols whose flip has a strictly lower value than s
Better(s, cols) ==
    {k \in 1..Len(cols) : FracLess(FlipValue(s, cols, k), value(s))}

\* C12: with ImprovementStrategy.Best, improve(s) considers the flips of the
\* sets in the list of selected sets that cover the selected row; if a flip has
\* a strictly lower value than s, it returns s with only the flip of lowest
\* value applied, the earliest in list order on ties, differing from s in
\* exactly that bit; if none has, it returns s with all bits unchanged.
C12_BestAppliesLowestFlip ==
    (call.op = "improve" /\ call.is = "Best") =>
        LET s == call.s
            cols == call.cols
        IN  /\ \E row \in 0..(rows - 1) : cols = SortedSeq(Covering(s, row))
            /\ Better(s, cols) # {} =>
                  \E k \in Better(s, cols) :
                     /\ \A j \in 1..Len(cols) :
                           FracLeq(FlipValue(s, cols, k), FlipValue(s, cols, j))
                     /\ \A j \in 1..(k - 1) :
                           FracLess(FlipValue(s, cols, k), FlipValue(s, cols, j))
                     /\ call.ret = Flip(s, cols[k])
                     /\ Cardinality({i \in 0..(N - 1) : call.ret[i] # s[i]}) = 1
            /\ Better(s, cols) = {} => call.ret = s

\* improve, Best, applied the first of two flips that tie for the lowest value
C12_Witness ==
    /\ call.op = "improve" /\ call.is = "Best" /\ Len(call.cols) >= 2
    /\ 1 \in Better(call.s, call.cols)
    /\ FracEq(FlipValue(call.s, call.cols, 1), FlipValue(call.s, call.cols, 2))
    /\ call.ret = Flip(call.s, call.cols[1])

\* C7: constructing an SPProblem with sets.length different from costs.length
\* fails, before penalty, Ri or averageNonZeros are computed, and no problem
\* exists on which anything could run; with equal lengths it succeeds.
C7_MismatchFailsEarly ==
    /\ Size(sets) # Size(costs) =>
          /\ status \in {"new", "error"}
          /\ penalty = Unset /\ Ri = Unset /\ averageNonZeros = Unset
          /\ call = NoCall
    /\ Size(sets) = Size(costs) => status \in {"new", "ready"}

\* the constructor threw, given fewer sets than costs
C7_Witness == status = "error" /\ Size(sets) < Size(costs)

----------------------------------------------------------------------------
(* Claims on tpx, under SpecTpx *)

\* C5: with distance = ceil(size * xFactor) and W the window of distance
\* indices from x on, wrapped, child1 holds b's original bit at every index of
\* W and a's original bit elsewhere, and child2 holds a's original bit at every
\* index of W and b's original bit elsewhere; so tpx(a, b, 1.0) returns b and a.
C5_TpxChildren ==
    (call.op = "tpx" /\ call.pc = "done") =>
        LET size == Size(call.a)
            W == Window(call.x,
                        Ceil(Frac(size * call.xFactor.num, call.xFactor.den)),
                        size)
        IN  /\ \A i \in 0..(size - 1) :
                  /\ call.ret[1][i] = IF i \in W THEN call.b[i] ELSE call.a[i]
                  /\ call.ret[2][i] = IF i \in W THEN call.a[i] ELSE call.b[i]
            /\ FracEq(call.xFactor, Frac(1, 1)) =>
                  call.ret[1] = call.b /\ call.ret[2] = call.a

\* What holds of tpx on every build: child1 is as C5 says, and so is child2
\* when the BitSet copies the buffer; when it shares it, child2 is b and a has
\* become child1.
TpxOnEveryBuild ==
    (call.op = "tpx" /\ call.pc = "done") =>
        LET size == Size(call.a)
            W == Window(call.x,
                        Ceil(Frac(size * call.xFactor.num, call.xFactor.den)),
                        size)
        IN  \A i \in 0..(size - 1) :
               /\ call.ret[1][i] = IF i \in W THEN call.b[i] ELSE call.a[i]
               /\ ~shared =>
                     /\ call.ret[2][i] = IF i \in W THEN call.a[i] ELSE call.b[i]
                     /\ call.aAfter = call.a /\ call.bAfter = call.b
               /\ shared =>
                     /\ call.ret[2] = call.b
                     /\ call.aAfter = call.ret[1] /\ call.bAfter = call.b

----------------------------------------------------------------------------
(* Claims on crossover, under FairCrossover *)

\* C6: for every n >= 1 and every a, b of length n, crossover(a, b) returns at
\* last, under fair random draws, and returns exactly two children of length n.
C6_CrossoverReturnsTwoChildren ==
    (call.op = "crossover" /\ call.pc = "distance")
        ~> (/\ call.op = "crossover" /\ call.pc = "done"
            /\ Len(call.ret) = 2
            /\ Size(call.ret[1]) = N /\ Size(call.ret[2]) = N)

\* What holds of crossover: it returns at last when n >= 3, and never when
\* n <= 2, where randInt(0, n - 1) can only return 0.
CrossoverReturnsFromThreeSets ==
    (call.op = "crossover" /\ call.pc = "distance" /\ N >= 3)
        ~> (/\ call.op = "crossover" /\ call.pc = "done"
            /\ Len(call.ret) = 2
            /\ Size(call.ret[1]) = N /\ Size(call.ret[2]) = N)

\* crossover never leaves the loop that draws distance when n <= 2
CrossoverHangsUpToTwoSets ==
    [][(call.op = "crossover" /\ call.pc = "distance" /\ N <= 2)
          => (call.pc' = "distance")]_vars

\* a bit with its mutation flip taken back
Unflipped(bit, flipped) == IF flipped THEN ~bit ELSE bit

\* C11: disregarding the mutation flips, for the drawn x and distance, child1
\* of crossover(a, b) holds b's bit exactly at the indices (x + i) mod n,
\* 0 <= i < distance, and a's bit at every other index, and child2 holds a's
\* bit exactly at those indices and b's bit at every other index.
C11_CrossoverWindowLikeTpx ==
    (call.op = "crossover" /\ call.pc = "done") =>
        LET W == Window(call.x, call.distance, N)
        IN  \A i \in 0..(N - 1) :
               /\ Unflipped(call.ret[1][i], call.mutAB[i])
                    = IF i \in W THEN call.b[i] ELSE call.a[i]
               /\ Unflipped(call.ret[2][i], call.mutBA[i])
                    = IF i \in W THEN call.a[i] ELSE call.b[i]

\* What holds of crossover: the indices it swaps are those strictly between x
\* and x + distance and, when x + distance reaches n, those up to
\* (x + distance) mod n; x itself is swapped only in that second case.
CrossoverWindowOfTheCode ==
    (call.op = "crossover" /\ call.pc = "done") =>
        LET x == call.x
            d == call.distance
            W == {i \in 0..(N - 1) : x < i /\ i < x + d}
                   \cup (IF x + d >= N THEN 0..((x + d) % N) ELSE {})
        IN  \A i \in 0..(N - 1) :
               /\ Unflipped(call.ret[1][i], call.mutAB[i])
                    = IF i \in W THEN call.b[i] ELSE call.a[i]
               /\ Unflipped(call.ret[2][i], call.mutBA[i])
                    = IF i \in W THEN call.a[i] ELSE call.b[i]

----------------------------------------------------------------------------
(* Claims on generate, under SpecGenerate and FairGenerate *)

\* the number of selected sets of s
SelectedCount(s) == Cardinality({i \in DOMAIN s : s[i]})
\* generate returned
GenerateDone == call.op = "generate" /\ call.pc = "done"
\* generate is in its loop
GenerateInLoop == call.op = "generate" /\ call.pc = "loop"
\* rows / averageNonZeros, for a problem in which some set holds a row
NonZero == Frac(rows * averageNonZeros.den, averageNonZeros.num)

\* C13, as stated: whenever generate() returns, the result is a bit vector of
\* length n whose number of selected sets is rows / averageNonZeros rounded
\* down.
C13_GenerateCountRoundedDown ==
    GenerateDone =>
        /\ DOMAIN call.ret = 0..(N - 1)
        /\ averageNonZeros.num > 0
        /\ SelectedCount(call.ret) = Floor(NonZero)

\* C13, amended: whenever generate() returns, the result is a bit vector of
\* length n whose number of selected sets is rows / averageNonZeros rounded
\* up, a duplicate pick adding nothing.
C13_GenerateCountRoundedUp ==
    GenerateDone =>
        /\ DOMAIN call.ret = 0..(N - 1)
        /\ averageNonZeros.num > 0
        /\ SelectedCount(call.ret) = Ceil(NonZero)
        /\ SelectedCount(call.ret) = call.i

\* generate returned for a problem whose rows / averageNonZeros is no integer
C13_Witness ==
    /\ GenerateDone
    /\ (rows * averageNonZeros.den) % averageNonZeros.num # 0
    /\ SelectedCount(call.ret) > Floor(NonZero)

\* generate as one step, as ssgarow's model takes it, returns what the loop
\* returns
GenerateAtomicAgrees == GenerateDone => call.ret \in GenerateResults

\* C14: for every SPP instance the constructor accepts, generate() returns at
\* last under fair random picks.
C14_GenerateReturns == GenerateInLoop ~> GenerateDone

\* What holds of generate: it returns at last when some set holds a row and
\* rows / averageNonZeros rounded up is at most n,
GenerateReturnsWhenTargetFits ==
    (GenerateInLoop /\ GenerateTarget \in 1..N) ~> GenerateDone

\* and never otherwise: all n sets are selected and the loop goes on.
GenerateHangsOtherwise ==
    [][(GenerateInLoop /\ GenerateTarget \notin 1..N)
          => call.pc' = "loop"]_vars

----------------------------------------------------------------------------
(* Claims on ssgarow, under SpecGA and FairGA *)

\* ssgarow is in its generation loop
InGenerationLoop == pc \in {"select", "breed", "replace"}
\* slot w holds a member of the greatest value
IsWorst(pop, w) == \A j \in DOMAIN pop : FracLeq(value(pop[j]), value(pop[w]))

\* C4: the fitness of the solution ssgarow returns is less than or equal to
\* the lowest fitness present in the population right after initialization.
C4_ReturnedNotWorseThanInitialBest ==
    pc = "done" => FracLeq(value(p), initBest)

\* ssgarow returned a solution strictly better than every initial member
C4_Witness == pc = "done" /\ FracLess(value(p), initBest)

\* C8: in every state of the generation loop, population and pCost both have
\* exactly popSize entries, and pCost[i] equals value(population[i]) for all i.
C8_CacheConsistent ==
    InGenerationLoop =>
        /\ DOMAIN population = 0..(popSize - 1)
        /\ DOMAIN pCost = 0..(popSize - 1)
        /\ \A i \in 0..(popSize - 1) : FracEq(pCost[i], value(population[i]))

\* a child better than every initial member has replaced the worst member
C8_Witness ==
    /\ pc = "replace" /\ childIdx > 0
    /\ population[worstIdx] = p /\ pCost[worstIdx] = pVal
    /\ FracLess(pVal, initBest)

\* C9: processing one child changes at most one slot: if the improved child's
\* fitness is strictly lower than the fitness of the current worst member,
\* exactly that worst slot's solution and cached fitness become the child and
\* its fitness and every other slot is unchanged; otherwise the population and
\* the cache are unchanged.
C9_OneSlotReplaced ==
    [][(pc = "replace" /\ childIdx' = childIdx + 1) =>
          /\ pVal' = value(p')
          /\ IsWorst(population, worstIdx')
          /\ IF FracLess(pVal', value(population[worstIdx']))
             THEN /\ population' = [population EXCEPT ![worstIdx'] = p']
                  /\ pCost' = [pCost EXCEPT ![worstIdx'] = pVal']
             ELSE population' = population /\ pCost' = pCost]_vars

\* a child worse than the worst member was processed and dropped, in a
\* population of two
C9_Witness ==
    /\ pc = "replace" /\ childIdx > 0 /\ popSize = 2
    /\ FracLess(pCost[worstIdx], pVal)

\* C10: for every popSize >= 1 and selRate in (0, 1], getCandidates returns at
\* last under fair random draws, and returns exactly floor(popSize * selRate)
\* pairwise distinct indices in [0, popSize).
C10_CandidatesReturned ==
    /\ [](pc = "breed" =>
            /\ Len(candidates) = Floor(Frac(popSize * selRate.num, selRate.den))
            /\ \A i \in 1..Len(candidates) :
                  /\ candidates[i] \in 0..(popSize - 1)
                  /\ \A j \in 1..Len(candidates) :
                        i # j => candidates[i] # candidates[j])
    /\ (pc = "select") ~> (pc = "breed")

\* getCandidates returned both indices of a population of two members of the
\* same fitness
C10_Witness ==
    /\ pc = "breed" /\ selIdx = 0 /\ Len(candidates) = 2
    /\ FracEq(pCost[0], pCost[1])

====
